---- MODULE Spec2Model ----
(***************************************************************************)
(* The HTTP gateway of function_app.py: the Bridge make_post_request, the  *)
(* three handlers refresh, chatbot and upload, the module-level values     *)
(* they share, the outbound calls they issue and the blob container.       *)
(*                                                                         *)
(* Each handler is split at its one blocking outbound call: <h>_begin runs *)
(* the handler from its first line to the call (or to an early return or   *)
(* an uncaught exception), <h>_end runs it from the call's completion to   *)
(* its return (or uncaught exception).  Handlers of different invocations  *)
(* interleave at these points only.                                        *)
(***************************************************************************)
EXTENDS Integers, Sequences, FiniteSets, TLC

\* Bounds of the model.
NumReqs == 2    \* invocations that may be in flight together (SpecConc)
MaxTime == 1    \* the largest value time() returns
MaxLen == 4     \* the longest `file` text of an upload request

Reqs == 1..NumReqs
Times == 0..MaxTime

(***************************************************************************)
(* JSON values.  A Leaf is a scalar member of an object; a Doc is a JSON   *)
(* value one level deep (what the handlers put in a response body and      *)
(* what a downstream `body` field holds); a Top is a parsed downstream     *)
(* response text.                                                          *)
(***************************************************************************)
Leaf(kind, str, num) == [kind |-> kind, str |-> str, num |-> num]
Absent == Leaf("absent", "", 0)
Str(s) == Leaf("string", s, 0)
Num(n) == Leaf("number", "", n)
Bool(b) == Leaf("bool", "", IF b THEN 1 ELSE 0)

\* Python truth value of a member read with dict.get (None when absent).
Truthy(v) ==
    \/ v.kind = "string" /\ v.str # ""
    \/ v.kind = "number" /\ v.num # 0
    \/ v.kind = "bool" /\ v.num = 1

DocKeys == {"result", "answer", "loaded", "message", "processing_time_seconds"}
EmptyObj == [k \in DocKeys |-> Absent]
Doc(kind, str, num, obj) == [kind |-> kind, str |-> str, num |-> num, obj |-> obj]
Object(obj) == Doc("object", "", 0, obj)
Obj1(k, v) == Object([EmptyObj EXCEPT ![k] = v])
StringDoc(s) == Doc("string", s, 0, EmptyObj)
NumberDoc(n) == Doc("number", "", n, EmptyObj)
ArrayDoc == Doc("array", "", 0, EmptyObj)
NullDoc == Doc("null", "", 0, EmptyObj)
AbsentDoc == Doc("absent", "", 0, EmptyObj)

\* d[k] = v on a Python dict.
SetItem(d, k, v) == [d EXCEPT !.obj[k] = v]

TopKeys == {"status", "body", "error"}
NoFields == [k \in TopKeys |-> AbsentDoc]
Top(kind, chars, items, num, fields) ==
    [kind |-> kind, chars |-> chars, items |-> items, num |-> num, fields |-> fields]
TopObject(fields) == Top("object", <<>>, <<>>, 0, fields)
TopArray(items) == Top("array", <<>>, items, 0, NoFields)
TopString(chars) == Top("string", chars, <<>>, 0, NoFields)
TopNumber(n) == Top("number", <<>>, <<>>, n, NoFields)
TopNull == Top("null", <<>>, <<>>, 0, NoFields)

\* A text: either not JSON (raw) or the JSON serialisation of a value.
PlainText(raw) == [json |-> FALSE, raw |-> raw, doc |-> NullDoc]
JsonDumps(doc) == [json |-> TRUE, raw |-> "", doc |-> doc]
JsonLoads(text) == text.doc

(***************************************************************************)
(* HTTP responses of the handlers.                                         *)
(***************************************************************************)
JSON == "application/json"
TEXT == "text/plain"
HttpResponse(body, status_code, ctype) ==
    [status |-> status_code, ctype |-> ctype, body |-> body]
NoResponse == HttpResponse(PlainText(""), 0, "")

\* What a piece of handler code ends with: a response or an uncaught exception.
Returned(resp, logs) == [raised |-> FALSE, error |-> "", resp |-> resp, logs |-> logs]
Raised(error, logs) == [raised |-> TRUE, error |-> error, resp |-> NoResponse, logs |-> logs]

InternalServerError ==
    HttpResponse(JsonDumps(Obj1("result", Str("Internal Server Error"))), 500, JSON)

method_not_allowed == HttpResponse(PlainText("Method not allowed"), 405, TEXT)

(***************************************************************************)
(* Downstream replies and storage outcomes.                                *)
(***************************************************************************)
HttpReply(status, json, raw, top) ==
    [kind |-> "http", status |-> status, json |-> json, raw |-> raw, top |-> top,
     stored |-> FALSE]
StorageReply(ok) ==
    [kind |-> "storage", status |-> 0, json |-> FALSE, raw |-> "", top |-> TopNull,
     stored |-> ok]
NoReply ==
    [kind |-> "none", status |-> 0, json |-> FALSE, raw |-> "", top |-> TopNull,
     stored |-> FALSE]

\* x in s for a Python str s and a one-word x: some slice of s equals x.
SubstringOf(x, chars) ==
    \E i \in 1..Len(chars) :
        /\ i + Len(x) - 1 <= Len(chars)
        /\ SubSeq(chars, i, i + Len(x) - 1) = x

BODY == <<"b", "o", "d", "y">>

\* "body" in response_body raises TypeError for a value that is no container.
InRaises(top) == top.kind \in {"number", "null"}

\* "body" in response_body, for dict (key), list (element) and str (substring).
InBody(top) ==
    CASE top.kind = "object" -> top.fields["body"].kind # "absent"
      [] top.kind = "array" -> \E i \in 1..Len(top.items) : top.items[i] = "body"
      [] top.kind = "string" -> SubstringOf(BODY, top.chars)
      [] OTHER -> FALSE

\* make_post_request with the status test written as "not 2xx".
make_post_request_2xx(reply) ==
    IF reply.status < 200 \/ reply.status > 299
    THEN Returned(InternalServerError, <<"error:status">>)
    ELSE IF ~reply.json
    THEN Returned(HttpResponse(JsonDumps(Obj1("result", Str(reply.raw))), reply.status, JSON),
                  <<"info:success", "warning:not_json">>)
    ELSE IF InRaises(reply.top)
    THEN Raised("TypeError", <<"info:success", "info:body">>)
    ELSE IF ~InBody(reply.top)
    THEN Returned(InternalServerError, <<"info:success", "info:body", "error:no_body">>)
    ELSE IF reply.top.kind # "object"
    THEN Raised("TypeError", <<"info:success", "info:body">>)
    ELSE Returned(HttpResponse(JsonDumps(reply.top.fields["body"]), reply.status, JSON),
                  <<"info:success", "info:body">>)

\* make_post_request from the downstream reply on: the status test, the JSON
\* parse and the `body` lookup.
make_post_request(reply) ==
    IF reply.status # 200
    THEN Returned(InternalServerError, <<"error:status">>)
    ELSE IF ~reply.json
    THEN Returned(HttpResponse(JsonDumps(Obj1("result", Str(reply.raw))), reply.status, JSON),
                  <<"info:success", "warning:not_json">>)
    ELSE IF InRaises(reply.top)
    THEN Raised("TypeError", <<"info:success", "info:body">>)
    ELSE IF ~InBody(reply.top)
    THEN Returned(InternalServerError, <<"info:success", "info:body", "error:no_body">>)
    ELSE IF reply.top.kind # "object"
    THEN Raised("TypeError", <<"info:success", "info:body">>)
    ELSE Returned(HttpResponse(JsonDumps(reply.top.fields["body"]), reply.status, JSON),
                  <<"info:success", "info:body">>)

\* The tail of refresh and chatbot with the timing left out.
add_processing_time_untimed(bridge, processing_time) ==
    IF bridge.raised
    THEN bridge
    ELSE LET response_body == JsonLoads(bridge.resp.body) IN
         IF response_body.kind # "object"
         THEN Raised("TypeError", bridge.logs)
         ELSE Returned(HttpResponse(JsonDumps(response_body), bridge.resp.status, JSON),
                       bridge.logs)

\* The tail shared by refresh and chatbot: parse the Bridge's body, add the
\* processing time, return with the Bridge's status.
add_processing_time(bridge, processing_time) ==
    IF bridge.raised
    THEN bridge
    ELSE LET response_body == JsonLoads(bridge.resp.body) IN
         IF response_body.kind # "object"
         THEN Raised("TypeError", bridge.logs)
         ELSE Returned(
                HttpResponse(
                    JsonDumps(SetItem(response_body, "processing_time_seconds",
                                      Num(processing_time))),
                    bridge.resp.status, JSON),
                bridge.logs)

(***************************************************************************)
(* base64.b64decode(s) with validate=False: binascii.a2b_base64 in its     *)
(* non-strict mode, character by character.                                *)
(***************************************************************************)
PAD == "="
\* table_a2b_base64: the 6-bit value of a character, 64 for one outside the
\* alphabet.
table_a2b_base64(c) ==
    CASE c = "A" -> 0 [] c = "D" -> 3 [] c = "I" -> 8 [] c = "J" -> 9
      [] c = "Q" -> 16 [] c = "U" -> 20 [] OTHER -> 64

B64Result(ok, data) == [ok |-> ok, data |-> data]

RECURSIVE a2b_base64(_, _, _, _, _, _)
a2b_base64(s, i, quad_pos, pads, leftchar, out) ==
    IF i > Len(s)
    THEN IF quad_pos # 0 THEN B64Result(FALSE, <<>>) ELSE B64Result(TRUE, out)
    ELSE LET c == s[i]
             v == table_a2b_base64(c)
         IN IF c = PAD
            THEN IF quad_pos >= 2 /\ quad_pos + pads + 1 >= 4
                 THEN B64Result(TRUE, out)
                 ELSE a2b_base64(s, i + 1, quad_pos,
                                 IF quad_pos >= 2 THEN pads + 1 ELSE pads, leftchar, out)
            ELSE IF v >= 64
            THEN a2b_base64(s, i + 1, quad_pos, pads, leftchar, out)
            ELSE CASE quad_pos = 0 ->
                        a2b_base64(s, i + 1, 1, 0, v, out)
                   [] quad_pos = 1 ->
                        a2b_base64(s, i + 1, 2, 0, v % 16,
                                   Append(out, (leftchar * 4 + v \div 16) % 256))
                   [] quad_pos = 2 ->
                        a2b_base64(s, i + 1, 3, 0, v % 4,
                                   Append(out, (leftchar * 16 + v \div 4) % 256))
                   [] OTHER ->
                        a2b_base64(s, i + 1, 0, 0, 0,
                                   Append(out, (leftchar * 64 + v) % 256))

b64decode(s) == a2b_base64(s, 1, 0, 0, 0, <<>>)

(***************************************************************************)
(* Requests.  The body of a request is empty, not UTF-8, not JSON, JSON    *)
(* that is no object, or a JSON object whose members the handlers read     *)
(* with dict.get.                                                          *)
(***************************************************************************)
FileValue(kind, chars) == [kind |-> kind, chars |-> chars]
AbsentFile == FileValue("absent", <<>>)
StrFile(chars) == FileValue("string", chars)
TruthyFile(f) == f.kind = "string" /\ f.chars # <<>>

ReqBody(form, message, filename, file) ==
    [form |-> form, message |-> message, filename |-> filename, file |-> file]
EmptyBody == ReqBody("empty", Absent, Absent, AbsentFile)
NotUtf8Body == ReqBody("notutf8", Absent, Absent, AbsentFile)
NotJsonBody == ReqBody("notjson", Absent, Absent, AbsentFile)
NonObjectBody == ReqBody("nonobject", Absent, Absent, AbsentFile)
ObjBody(message, filename, file) == ReqBody("object", message, filename, file)

Request(method, body) == [method |-> method, body |-> body]
NoRequest == Request("", EmptyBody)

\* req.get_body().decode('utf-8') if req.get_body() else None; json.loads(req_body):
\* the exception the body raises before its members can be read, "" if none.
BodyError(body) ==
    CASE body.form = "notutf8" -> "UnicodeDecodeError"
      [] body.form = "notjson" -> "JSONDecodeError"
      [] body.form = "nonobject" -> "AttributeError"
      [] OTHER -> ""

(***************************************************************************)
(* Outbound calls.                                                         *)
(***************************************************************************)
PostCall(url, key, json_data) ==
    [kind |-> "post", url |-> url, api_key |-> key, json |-> json_data,
     container |-> "", blob |-> "", data |-> <<>>, overwrite |-> FALSE,
     state |-> "pending", reply |-> NoReply]
BlobCall(container, blob, data, overwrite) ==
    [kind |-> "blob", url |-> "", api_key |-> "", json |-> NullDoc,
     container |-> container, blob |-> blob, data |-> data, overwrite |-> overwrite,
     state |-> "pending", reply |-> NoReply]
NoCall == BlobCall("", "", <<>>, FALSE)

\* The part of a handler before its outbound call ends with a result or with
\* the call to issue.
Finished(result) == [finished |-> TRUE, result |-> result, call |-> NoCall]
Calls(call) == [finished |-> FALSE, result |-> Raised("", <<>>), call |-> call]

\* The module-level values, bound once when the module is imported.
ModuleValues ==
    [connection_string |-> "conn", container_name |-> "docs",
     refresh_url |-> "https://refresh", chatbot_url |-> "https://chatbot",
     api_key |-> "secret", blob_service_client |-> "client(conn)",
     json_data_default |-> Object(EmptyObj)]

\* A Bridge that writes a member into its json_data argument.
json_data_after_post_written(json_data) ==
    IF json_data.kind = "object" THEN SetItem(json_data, "message", Str("")) ELSE json_data

\* The object bound to make_post_request's json_data once the call was sent:
\* neither the Bridge nor requests.post writes to it.
json_data_after_post(json_data) == json_data

\* refresh up to its call of the Bridge.
refresh_to_call(req, g) ==
    IF req.method # "POST"
    THEN Finished(Returned(method_not_allowed, <<>>))
    ELSE Calls(PostCall(g.refresh_url, g.api_key, g.json_data_default))

\* chatbot without its test of `message`.
chatbot_to_call_unchecked(req, g) ==
    IF req.method # "POST"
    THEN Finished(Returned(method_not_allowed, <<>>))
    ELSE IF req.body.form = "empty"
    THEN Finished(Returned(HttpResponse(PlainText("Request body is empty"), 400, TEXT), <<>>))
    ELSE IF BodyError(req.body) # ""
    THEN Finished(Raised(BodyError(req.body), <<>>))
    ELSE Calls(PostCall(g.chatbot_url, g.api_key, Obj1("message", req.body.message)))

\* chatbot up to its call of the Bridge.
chatbot_to_call(req, g) ==
    IF req.method # "POST"
    THEN Finished(Returned(method_not_allowed, <<>>))
    ELSE IF req.body.form = "empty"
    THEN Finished(Returned(HttpResponse(PlainText("Request body is empty"), 400, TEXT), <<>>))
    ELSE IF BodyError(req.body) # ""
    THEN Finished(Raised(BodyError(req.body), <<>>))
    ELSE IF ~Truthy(req.body.message)
    THEN Finished(Returned(
            HttpResponse(PlainText("'message' not provided in the request"), 400, TEXT), <<>>))
    ELSE Calls(PostCall(g.chatbot_url, g.api_key, Obj1("message", req.body.message)))

\* upload calling upload_blob without overwrite=True.
upload_to_call_no_overwrite(req, g) ==
    IF req.method # "POST"
    THEN Finished(Returned(method_not_allowed, <<>>))
    ELSE IF req.body.form = "empty"
    THEN Finished(Returned(HttpResponse(PlainText("Request body is empty"), 400, TEXT), <<>>))
    ELSE IF BodyError(req.body) # ""
    THEN Finished(Raised(BodyError(req.body), <<>>))
    ELSE IF ~Truthy(req.body.filename) \/ ~TruthyFile(req.body.file)
    THEN Finished(Returned(
            HttpResponse(
                JsonDumps(Obj1("result",
                    Str("File name or file content not provided in the request"))),
                400, JSON), <<>>))
    ELSE LET file_content == b64decode(req.body.file.chars) IN
         IF ~file_content.ok
         THEN Finished(Returned(InternalServerError, <<"error:upload">>))
         ELSE Calls(BlobCall(g.container_name, req.body.filename.str,
                             file_content.data, FALSE))

\* upload up to its storage write: validation, then the base64 decode inside
\* the try block.
upload_to_call(req, g) ==
    IF req.method # "POST"
    THEN Finished(Returned(method_not_allowed, <<>>))
    ELSE IF req.body.form = "empty"
    THEN Finished(Returned(HttpResponse(PlainText("Request body is empty"), 400, TEXT), <<>>))
    ELSE IF BodyError(req.body) # ""
    THEN Finished(Raised(BodyError(req.body), <<>>))
    ELSE IF ~Truthy(req.body.filename) \/ ~TruthyFile(req.body.file)
    THEN Finished(Returned(
            HttpResponse(
                JsonDumps(Obj1("result",
                    Str("File name or file content not provided in the request"))),
                400, JSON), <<>>))
    ELSE LET file_content == b64decode(req.body.file.chars) IN
         IF ~file_content.ok
         THEN Finished(Returned(InternalServerError, <<"error:upload">>))
         ELSE Calls(BlobCall(g.container_name, req.body.filename.str,
                             file_content.data, TRUE))

\* upload from the completion of upload_blob on.
upload_result(reply, processing_time) ==
    IF ~reply.stored
    THEN Returned(InternalServerError, <<"error:upload">>)
    ELSE Returned(
            HttpResponse(
                JsonDumps(Object([EmptyObj EXCEPT
                    !["loaded"] = Bool(TRUE),
                    !["processing_time_seconds"] = Num(processing_time)])),
                200, JSON), <<>>)

(***************************************************************************)
(* State.                                                                  *)
(***************************************************************************)
VARIABLES
    globals,    \* the module-level values
    inv,        \* per invocation: pc, route, request, start, stop, the Bridge's
                \* return value (bridge), response, error, the Bridge's log lines
    calls,      \* per invocation: the outbound calls it has issued, in order
    blobs       \* the blob container: name -> [exists, data]

vars == <<globals, inv, calls, blobs>>

BlobNames == {"x.bin", "a.txt"}
NoBlob == [exists |-> FALSE, data |-> <<>>]
Blob(data) == [exists |-> TRUE, data |-> data]

Idle ==
    [pc |-> "idle", route |-> "", request |-> NoRequest, start |-> 0, stop |-> 0,
     bridge |-> NoResponse, response |-> NoResponse, error |-> "", logs |-> <<>>]

\* An invocation ends: the handler returns its response or an exception leaves it.
Ended(i, result, stop) ==
    [i EXCEPT !.pc = IF result.raised THEN "raised" ELSE "returned",
              !.response = result.resp, !.error = result.error,
              !.logs = result.logs, !.stop = stop]

(***************************************************************************)
(* Inputs: the requests a client may send, the replies a downstream        *)
(* service may give, the outcomes of a storage write, the readings of the  *)
(* clock.                                                                  *)
(***************************************************************************)
Methods == {"POST", "GET"}
Messages == {Absent, Str(""), Str("hi"), Str("yo")}
Filenames == {Absent, Str(""), Str("x.bin"), Str("a.txt")}
B64Chars == {"Q", "U", "=", "*"}
B64Texts == UNION {[1..n -> B64Chars] : n \in 0..MaxLen}
\* Texts of two quanta: valid, with text after the padding, with a character
\* outside the alphabet.
LongTexts ==
    {<<"Q", "U", "Q", "U", "Q", "Q", "=", "=">>,
     <<"Q", "U", "J", "D", "Q", "U", "I", "=">>,
     <<"Q", "Q", "=", "=", "Q", "Q", "=", "=">>,
     <<"Q", "U", "Q", "Q", "U", "*", "Q", "=">>}
Files == {AbsentFile} \cup {StrFile(s) : s \in B64Texts \cup LongTexts}
BrokenBodies == {EmptyBody, NotUtf8Body, NotJsonBody, NonObjectBody}

RefreshRequests ==
    {Request(m, b) : m \in Methods, b \in {EmptyBody, ObjBody(Str("hi"), Absent, AbsentFile)}}
ChatbotRequests ==
    {Request(m, b) : m \in Methods,
        b \in BrokenBodies \cup {ObjBody(msg, Absent, AbsentFile) : msg \in Messages}}
UploadRequests ==
    {Request(m, b) : m \in Methods,
        b \in BrokenBodies \cup {ObjBody(Absent, n, f) : n \in Filenames, f \in Files}}

\* The values a downstream `body` member may hold.
Bodies ==
    {Obj1("answer", Str("hi")),
     Object(EmptyObj),
     Object([EmptyObj EXCEPT !["answer"] = Str("hi"),
                             !["processing_time_seconds"] = Num(7)]),
     StringDoc("hi"), NumberDoc(5), ArrayDoc, NullDoc}

\* The parsed forms of a downstream response text that is JSON.
Tops ==
    {TopNumber(5), TopNull,
     TopString(<<"h", "i">>), TopString(<<"n", "o", "b", "o", "d", "y">>),
     TopArray(<<>>), TopArray(<<"body">>),
     TopObject(NoFields),
     TopObject([NoFields EXCEPT !["error"] = StringDoc("boom")])}
    \cup {TopObject([NoFields EXCEPT !["status"] = NumberDoc(200), !["body"] = b]) :
            b \in Bodies}

Statuses == {200, 201, 404, 500}
DownstreamReplies ==
    {HttpReply(st, FALSE, raw, TopNull) : st \in Statuses, raw \in {"oops", "trace: key=secret"}}
    \cup {HttpReply(st, TRUE, "", top) : st \in Statuses, top \in Tops}
StorageReplies == {StorageReply(TRUE), StorageReply(FALSE)}

\* The smaller input sets of the concurrent specification.
RefreshSample == {Request("POST", EmptyBody), Request("GET", EmptyBody)}
ChatbotSample ==
    {Request("POST", ObjBody(Str("hi"), Absent, AbsentFile)),
     Request("POST", ObjBody(Absent, Absent, AbsentFile)),
     Request("POST", NotJsonBody)}
UploadSample ==
    {Request("POST", ObjBody(Absent, Str("x.bin"), StrFile(<<"Q", "Q", "=", "=">>))),
     Request("POST", ObjBody(Absent, Str("x.bin"), StrFile(<<"Q", "U", "Q", "=">>))),
     Request("POST", ObjBody(Absent, Str("a.txt"), StrFile(<<"Q">>)))}
RepliesSample ==
    {HttpReply(200, TRUE, "",
        TopObject([NoFields EXCEPT !["status"] = NumberDoc(200),
                                   !["body"] = Obj1("answer", Str("hi"))])),
     HttpReply(200, TRUE, "", TopNumber(5)),
     HttpReply(500, FALSE, "trace: key=secret", TopNull)}

InitialBlobs ==
    {[n \in BlobNames |-> NoBlob],
     [n \in BlobNames |-> IF n = "x.bin" THEN Blob(<<0>>) ELSE NoBlob]}

(***************************************************************************)
(* Actions.                                                                *)
(***************************************************************************)
\* The handler of `route` runs for invocation r from its first line (start =
\* time()) to its outbound call, an early return or an uncaught exception.
Begin(r, route, req, t, pre) ==
    /\ inv' = [inv EXCEPT ![r] =
                IF pre.finished
                THEN Ended([Idle EXCEPT !.route = route, !.request = req, !.start = t],
                           pre.result, t)
                ELSE [Idle EXCEPT !.pc = "calling", !.route = route, !.request = req,
                                  !.start = t, !.stop = t]]
    /\ calls' = [calls EXCEPT ![r] = IF pre.finished THEN @ ELSE Append(@, pre.call)]

\* The pending call of invocation r completes with `reply`.
Complete(r, reply) ==
    calls' = [calls EXCEPT ![r][Len(calls[r])] =
                [@ EXCEPT !.state = "completed", !.reply = reply]]

refresh_begin(r, requests) ==
    /\ inv[r].pc = "idle"
    /\ \E req \in requests, t \in Times :
        /\ Begin(r, "refresh", req, t, refresh_to_call(req, globals))
        /\ globals' = IF req.method = "POST"
                      THEN [globals EXCEPT !.json_data_default = json_data_after_post(@)]
                      ELSE globals
        /\ UNCHANGED blobs

refresh_end(r, replies) ==
    /\ inv[r].pc = "calling" /\ inv[r].route = "refresh"
    /\ \E reply \in replies, t \in inv[r].start..MaxTime :
        LET bridge == make_post_request(reply) IN
        /\ Complete(r, reply)
        /\ inv' = [inv EXCEPT ![r] =
                    Ended([@ EXCEPT !.bridge = bridge.resp],
                          add_processing_time(bridge, t - @.start),
                          IF bridge.raised THEN @.start ELSE t)]
    /\ UNCHANGED <<globals, blobs>>

chatbot_begin(r, requests) ==
    /\ inv[r].pc = "idle"
    /\ \E req \in requests, t \in Times :
        /\ Begin(r, "chatbot", req, t, chatbot_to_call(req, globals))
        /\ UNCHANGED <<globals, blobs>>

chatbot_end(r, replies) ==
    /\ inv[r].pc = "calling" /\ inv[r].route = "chatbot"
    /\ \E reply \in replies, t \in inv[r].start..MaxTime :
        LET bridge == make_post_request(reply) IN
        /\ Complete(r, reply)
        /\ inv' = [inv EXCEPT ![r] =
                    Ended([@ EXCEPT !.bridge = bridge.resp],
                          add_processing_time(bridge, t - @.start),
                          IF bridge.raised THEN @.start ELSE t)]
    /\ UNCHANGED <<globals, blobs>>

upload_begin(r, requests) ==
    /\ inv[r].pc = "idle"
    /\ \E req \in requests, t \in Times :
        /\ Begin(r, "upload", req, t, upload_to_call(req, globals))
        /\ UNCHANGED <<globals, blobs>>

\* upload_blob(data, overwrite): the write fails on an existing blob unless
\* overwrite is set, and may fail for any other reason; a write that fails
\* leaves the container as it was.
StorageOutcomes(call, container, replies) ==
    {o \in replies : o.stored => (call.overwrite \/ ~container[call.blob].exists)}

upload_end(r) ==
    /\ inv[r].pc = "calling" /\ inv[r].route = "upload"
    /\ LET call == calls[r][Len(calls[r])] IN
       \E reply \in StorageOutcomes(call, blobs, StorageReplies), t \in inv[r].start..MaxTime :
        /\ Complete(r, reply)
        /\ blobs' = IF reply.stored THEN [blobs EXCEPT ![call.blob] = Blob(call.data)]
                    ELSE blobs
        /\ inv' = [inv EXCEPT ![r] =
                    Ended(@, upload_result(reply, t - @.start),
                          IF reply.stored THEN t ELSE @.start)]
    /\ UNCHANGED globals

Init ==
    /\ globals = ModuleValues
    /\ inv = [r \in Reqs |-> Idle]
    /\ calls = [r \in Reqs |-> <<>>]
    /\ blobs \in InitialBlobs

\* One invocation, with every request and every outcome.
Next ==
    \/ refresh_begin(1, RefreshRequests)
    \/ refresh_end(1, DownstreamReplies)
    \/ chatbot_begin(1, ChatbotRequests)
    \/ chatbot_end(1, DownstreamReplies)
    \/ upload_begin(1, UploadRequests)
    \/ upload_end(1)

Spec == Init /\ [][Next]_vars

\* NumReqs invocations in flight together, interleaved at their outbound calls.
InitConc ==
    /\ globals = ModuleValues
    /\ inv = [r \in Reqs |-> Idle]
    /\ calls = [r \in Reqs |-> <<>>]
    /\ blobs = [n \in BlobNames |-> NoBlob]

NextConc ==
    \E r \in Reqs :
        \/ refresh_begin(r, RefreshSample)
        \/ refresh_end(r, RepliesSample)
        \/ chatbot_begin(r, ChatbotSample)
        \/ chatbot_end(r, RepliesSample)
        \/ upload_begin(r, UploadSample)
        \/ upload_end(r)

SpecConc == InitConc /\ [][NextConc]_vars

(***************************************************************************)
(* Properties.                                                             *)
(***************************************************************************)
PTS == "processing_time_seconds"
HasEnded(r) == inv[r].pc \in {"returned", "raised"}
LastCall(r) == calls[r][Len(calls[r])]
\* Invocation r of refresh or chatbot has had its Bridge call answered.
Posted(r) == inv[r].route \in {"refresh", "chatbot"} /\ HasEnded(r) /\ calls[r] # <<>>
ReplyOf(r) == calls[r][1].reply
Payload(r) == inv[r].response.body.doc
InSeq(x, seq) == \E i \in 1..Len(seq) : seq[i] = x
Is2xx(status) == status >= 200 /\ status <= 299
\* A parsed downstream response has no `body` member.
LacksBody(top) == top.kind # "object" \/ top.fields["body"].kind = "absent"

\* C1: every invocation of refresh, chatbot or upload, whatever the request
\* and the downstream or storage outcome, makes at most one outbound call (no
\* retry) and ends by returning a response: it never ends with an exception
\* in place of a response.
C1_OneCallOneResponse ==
    \A r \in Reqs :
        /\ Len(calls[r]) <= 1
        /\ inv[r].pc # "raised"
        /\ inv[r].pc = "returned" => inv[r].response # NoResponse

\* The status the handlers owe a request that fails validation, 0 for a
\* request that passes (or whose body is no JSON object, which the handlers
\* do not validate).
ValidationStatus(route, req) ==
    IF req.method # "POST" THEN 405
    ELSE IF route \in {"chatbot", "upload"} /\ req.body.form = "empty" THEN 400
    ELSE IF route = "chatbot" /\ req.body.form = "object" /\ ~Truthy(req.body.message)
    THEN 400
    ELSE IF /\ route = "upload" /\ req.body.form = "object"
            /\ (~Truthy(req.body.filename) \/ ~TruthyFile(req.body.file))
    THEN 400
    ELSE 0

C3_Non200IffGeneric ==
    \A r \in Reqs :
        Posted(r) =>
            /\ InSeq("error:status", inv[r].logs) <=> ReplyOf(r).status # 200
            /\ ReplyOf(r).status # 200 => inv[r].bridge = InternalServerError
            /\ ReplyOf(r).status = 200 => InSeq("info:success", inv[r].logs)

C3_Witness ==
    \E r \in Reqs :
        /\ Posted(r) /\ ReplyOf(r).status = 201
        /\ inv[r].bridge = InternalServerError /\ inv[r].logs = <<"error:status">>

\* C3 (as claimed): the Bridge returns the generic 500 envelope because of
\* the downstream status exactly when that status is not 2xx; every 2xx
\* status goes on to response parsing.
C3_Non2xxIffGeneric ==
    \A r \in Reqs :
        Posted(r) =>
            /\ InSeq("error:status", inv[r].logs) <=> ~Is2xx(ReplyOf(r).status)
            /\ ~Is2xx(ReplyOf(r).status) => inv[r].bridge = InternalServerError
            /\ Is2xx(ReplyOf(r).status) => InSeq("info:success", inv[r].logs)

\* C4: for a downstream response with status 200 the Bridge returns the raw
\* text with that status when the text is not JSON, the 500 envelope when it
\* is JSON of any type without a `body` member, and the value of `body` with
\* that status otherwise.
C4_BridgeByText ==
    \A r \in Reqs :
        (Posted(r) /\ ReplyOf(r).status = 200) =>
            inv[r].bridge =
                IF ~ReplyOf(r).json
                THEN HttpResponse(JsonDumps(Obj1("result", Str(ReplyOf(r).raw))),
                                  ReplyOf(r).status, JSON)
                ELSE IF LacksBody(ReplyOf(r).top)
                THEN InternalServerError
                ELSE HttpResponse(JsonDumps(ReplyOf(r).top.fields["body"]),
                                  ReplyOf(r).status, JSON)

\* A downstream response that is an error: a status that is not 2xx, or JSON
\* without a `body` member.
IsErrorReply(reply) == ~Is2xx(reply.status) \/ (reply.json /\ LacksBody(reply.top))
WithoutTime(resp) ==
    IF resp.body.json /\ resp.body.doc.kind = "object"
    THEN [resp EXCEPT !.body.doc.obj[PTS] = Absent]
    ELSE resp

\* C5: any two invocations of refresh or chatbot whose downstream responses
\* are both errors are answered alike, whatever the error's status and text:
\* same status, same payload apart from the processing time, the generic
\* message.
C5_ErrorsIndistinguishable ==
    \A r1, r2 \in Reqs :
        (/\ Posted(r1) /\ IsErrorReply(ReplyOf(r1))
         /\ Posted(r2) /\ IsErrorReply(ReplyOf(r2))) =>
            /\ inv[r1].pc = "returned" /\ inv[r2].pc = "returned"
            /\ WithoutTime(inv[r1].response) = WithoutTime(inv[r2].response)
            /\ WithoutTime(inv[r1].response) = InternalServerError

\* C6: a chatbot POST with a non-empty message, answered downstream with
\* status 200 and JSON holding a `body` member B, sends exactly
\* {message: <text>} to the Bridge and returns 200 with B plus a numeric
\* processing_time_seconds, every member of B as it came.
C6_ChatbotSuccess ==
    \A r \in Reqs :
        (/\ inv[r].route = "chatbot" /\ Posted(r)
         /\ ReplyOf(r).status = 200 /\ ReplyOf(r).json /\ ~LacksBody(ReplyOf(r).top)) =>
            LET B == ReplyOf(r).top.fields["body"] IN
            /\ Len(calls[r]) = 1
            /\ calls[r][1].kind = "post" /\ calls[r][1].url = globals.chatbot_url
            /\ calls[r][1].json = Obj1("message", inv[r].request.body.message)
            /\ inv[r].pc = "returned" /\ inv[r].response.status = 200
            /\ inv[r].response.body.json /\ Payload(r).kind = "object"
            /\ Payload(r).obj[PTS].kind = "number"
            /\ \A k \in DocKeys \ {PTS} : Payload(r).obj[k] = B.obj[k]
            /\ B.obj[PTS].kind # "absent" => Payload(r).obj[PTS] = B.obj[PTS]

(***************************************************************************)
(* Base64 by RFC 4648, four characters at a time: the reference the        *)
(* upload properties measure b64decode against.                            *)
(***************************************************************************)
IsData(c) == c # PAD /\ table_a2b_base64(c) < 64
\* A text of whole quanta of alphabet characters, padded with at most two
\* trailing "=".
ValidBase64(s) ==
    /\ Len(s) > 0 /\ Len(s) % 4 = 0
    /\ \A i \in 1..Len(s) :
        \/ IsData(s[i])
        \/ s[i] = PAD /\ i = Len(s)
        \/ s[i] = PAD /\ i = Len(s) - 1 /\ s[Len(s)] = PAD
Sextet(c) == IF c = PAD THEN 0 ELSE table_a2b_base64(c)
QuantumBytes(a, b, c, d) ==
    LET n == Sextet(a) * 262144 + Sextet(b) * 4096 + Sextet(c) * 64 + Sextet(d)
        pads == (IF c = PAD THEN 1 ELSE 0) + (IF d = PAD THEN 1 ELSE 0)
    IN SubSeq(<<n \div 65536, (n \div 256) % 256, n % 256>>, 1, 3 - pads)
RECURSIVE DecodedFrom(_, _)
DecodedFrom(s, i) ==
    IF i + 3 > Len(s) THEN <<>>
    ELSE QuantumBytes(s[i], s[i + 1], s[i + 2], s[i + 3]) \o DecodedFrom(s, i + 4)
DecodedBytes(s) == DecodedFrom(s, 1)

\* Invocation r is an upload POST of a JSON object with a filename and a file.
UploadOf(r) ==
    /\ inv[r].route = "upload" /\ inv[r].pc # "idle"
    /\ inv[r].request.method = "POST" /\ inv[r].request.body.form = "object"
    /\ Truthy(inv[r].request.body.filename) /\ TruthyFile(inv[r].request.body.file)
FileOf(r) == inv[r].request.body.file.chars
NameOf(r) == inv[r].request.body.filename.str

\* C7: an upload POST with a filename and a file that is valid base64 makes
\* exactly one storage write, of the decoded bytes, under the key filename,
\* with overwrite; when the write succeeds the blob holds those bytes and the
\* handler returns 200 with loaded:true and the elapsed processing time.
C7_UploadWritesDecoded ==
    \A r \in Reqs :
        (UploadOf(r) /\ ValidBase64(FileOf(r))) =>
            /\ Len(calls[r]) = 1
            /\ calls[r][1].kind = "blob"
            /\ calls[r][1].container = globals.container_name
            /\ calls[r][1].blob = NameOf(r)
            /\ calls[r][1].data = DecodedBytes(FileOf(r))
            /\ calls[r][1].overwrite
            /\ (HasEnded(r) /\ calls[r][1].reply.stored) =>
                /\ blobs[NameOf(r)] = Blob(DecodedBytes(FileOf(r)))
                /\ inv[r].pc = "returned"
                /\ inv[r].response =
                    HttpResponse(
                        JsonDumps(Object([EmptyObj EXCEPT
                            !["loaded"] = Bool(TRUE),
                            ![PTS] = Num(inv[r].stop - inv[r].start)])),
                        200, JSON)

C7_Witness ==
    \E r \in Reqs :
        /\ UploadOf(r) /\ FileOf(r) = <<"Q", "U", "Q", "=">> /\ NameOf(r) = "x.bin"
        /\ inv[r].pc = "returned" /\ inv[r].response.status = 200
        /\ inv[r].stop - inv[r].start = 1
        /\ blobs["x.bin"] = Blob(<<65, 68>>)

\* C8: an upload POST whose file is not valid base64 never calls storage; and
\* on a decode failure or a failed storage write the handler returns the
\* failure envelope, 500 with loaded:false.
C8_InvalidBase64Rejected ==
    \A r \in Reqs :
        UploadOf(r) =>
            /\ ~ValidBase64(FileOf(r)) => calls[r] = <<>>
            /\ (/\ HasEnded(r)
                /\ \/ ~b64decode(FileOf(r)).ok
                   \/ calls[r] # <<>> /\ ~LastCall(r).reply.stored) =>
                    /\ inv[r].pc = "returned" /\ inv[r].response.status = 500
                    /\ inv[r].response.body.json
                    /\ Payload(r).obj["loaded"] = Bool(FALSE)

\* The response of invocation r was built after its Bridge call was answered
\* (refresh, chatbot) or after its storage write succeeded (upload).
AfterCall(r) ==
    /\ calls[r] # <<>>
    /\ inv[r].route = "upload" => LastCall(r).reply.stored
HasTime(resp) ==
    resp.body.json /\ resp.body.doc.kind = "object" /\ resp.body.doc.obj[PTS].kind = "number"

\* C9 (as amended): a response built after the Bridge call was answered
\* (downstream success or downstream 500) or after a successful storage write
\* carries the elapsed processing time and the JSON content type; the other
\* responses (405, 400, upload's 500) carry no processing time, and of them
\* only upload's missing-field 400 and upload's 500 have the JSON content
\* type.
C9_TimedAfterCall ==
    \A r \in Reqs :
        inv[r].pc = "returned" =>
            IF AfterCall(r)
            THEN /\ inv[r].response.ctype = JSON
                 /\ HasTime(inv[r].response)
                 /\ Payload(r).obj[PTS] = Num(inv[r].stop - inv[r].start)
            ELSE /\ inv[r].response.status \in {405, 400, 500}
                 /\ ~HasTime(inv[r].response)
                 /\ inv[r].response.ctype = JSON <=>
                        /\ inv[r].route = "upload"
                        /\ inv[r].request.method = "POST"
                        /\ inv[r].request.body.form = "object"

C9_Witness ==
    \E r \in Reqs :
        /\ inv[r].route = "refresh" /\ inv[r].pc = "returned" /\ AfterCall(r)
        /\ ReplyOf(r).status = 500 /\ inv[r].response.status = 500
        /\ inv[r].stop - inv[r].start = 1
        /\ Payload(r).obj[PTS] = Num(1)

\* C9 (as claimed): every response a handler returns carries the elapsed
\* processing time and the JSON content type.
C9_EveryResponseTimedJson ==
    \A r \in Reqs :
        inv[r].pc = "returned" =>
            inv[r].response.ctype = JSON /\ HasTime(inv[r].response)

\* What the handler of `route` does with `req` when it runs with nothing else
\* in flight, its outbound call answered with `reply`: its result and calls.
Alone(route, req, reply, start, stop) ==
    LET pre == CASE route = "refresh" -> refresh_to_call(req, ModuleValues)
                 [] route = "chatbot" -> chatbot_to_call(req, ModuleValues)
                 [] OTHER -> upload_to_call(req, ModuleValues)
    IN IF pre.finished
       THEN [result |-> pre.result, calls |-> <<>>]
       ELSE [result |-> IF route = "upload"
                        THEN upload_result(reply, stop - start)
                        ELSE add_processing_time(make_post_request(reply), stop - start),
             calls |-> <<[pre.call EXCEPT !.state = "completed", !.reply = reply]>>]

\* C10: under every interleaving of the invocations in flight, the
\* module-level values (storage client, URLs, API key, the Bridge's default
\* payload object) keep their initial values, no handler has ended with an
\* outbound call still pending, and each invocation ends as it would have
\* ended alone with the same downstream or storage outcome.
C10_Independent ==
    /\ globals = ModuleValues
    /\ \A r \in Reqs :
        HasEnded(r) =>
            LET a == Alone(inv[r].route, inv[r].request,
                           IF calls[r] = <<>> THEN NoReply ELSE LastCall(r).reply,
                           inv[r].start, inv[r].stop)
            IN /\ \A i \in 1..Len(calls[r]) : calls[r][i].state = "completed"
               /\ inv[r].pc = (IF a.result.raised THEN "raised" ELSE "returned")
               /\ inv[r].response = a.result.resp
               /\ inv[r].error = a.result.error
               /\ calls[r] = a.calls

\* Two uploads of different bytes to one blob name, both answered
\* loaded:true, the blob holding the bytes of one of them.
C10_Witness ==
    \E r1, r2 \in Reqs :
        /\ r1 # r2
        /\ UploadOf(r1) /\ UploadOf(r2) /\ NameOf(r1) = NameOf(r2)
        /\ inv[r1].pc = "returned" /\ inv[r1].response.status = 200
        /\ inv[r2].pc = "returned" /\ inv[r2].response.status = 200
        /\ calls[r1][1].data # calls[r2][1].data
        /\ blobs[NameOf(r1)] = Blob(calls[r1][1].data)

====
